---------------------------- MODULE Spec2Model ----------------------------
(***************************************************************************)
(* Model of the UK Company Ownership Explorer (src/app.py): the input      *)
(* validation of the button handler, the registry client                   *)
(* make_api_request, the summary builder                                   *)
(* generate_markdown_summary_and_guide and the recursive traversal         *)
(* display_ownership_tree, run against a synthetic registry.               *)
(*                                                                         *)
(* Python strings that the code inspects (identifiers, kind labels,        *)
(* country and place of registration) are sequences of one-character       *)
(* strings, so that strip / upper / lower / title / replace / "in" are     *)
(* computed as Python computes them.  JSON objects are records whose       *)
(* optional keys may be missing; Python's None is the record NoneVal.      *)
(***************************************************************************)
EXTENDS Integers, Sequences, FiniteSets, TLC

(***************************************************************************)
(* Python string primitives                                                *)
(***************************************************************************)
LowerCase == <<"a","b","c","d","e","f","g","h","i","j","k","l","m",
               "n","o","p","q","r","s","t","u","v","w","x","y","z">>

UpperCase == <<"A","B","C","D","E","F","G","H","I","J","K","L","M",
               "N","O","P","Q","R","S","T","U","V","W","X","Y","Z">>

DigitChars == {"0","1","2","3","4","5","6","7","8","9"}

\* the characters str.strip() removes that occur in the modelled inputs
Whitespace == {" "}

LowerChars == { LowerCase[i] : i \in 1..Len(LowerCase) }

UpperChars == { UpperCase[i] : i \in 1..Len(UpperCase) }

\* the uppercase of each lowercase letter, and the reverse
ToUpper == [c \in LowerChars |-> UpperCase[CHOOSE i \in 1..Len(LowerCase) : LowerCase[i] = c]]

ToLower == [c \in UpperChars |-> LowerCase[CHOOSE i \in 1..Len(UpperCase) : UpperCase[i] = c]]

IsLowerChar(c) == c \in LowerChars

IsUpperChar(c) == c \in UpperChars

IsAlphaChar(c) == IsLowerChar(c) \/ IsUpperChar(c)

upper_char(c) == IF IsLowerChar(c) THEN ToUpper[c] ELSE c

lower_char(c) == IF IsUpperChar(c) THEN ToLower[c] ELSE c

\* str.upper()
upper(s) == [i \in 1..Len(s) |-> upper_char(s[i])]

\* str.lower()
lower(s) == [i \in 1..Len(s) |-> lower_char(s[i])]

SetMin(S) == CHOOSE x \in S : \A y \in S : x <= y

SetMax(S) == CHOOSE x \in S : \A y \in S : x >= y

\* str.strip(): leading and trailing whitespace removed, inner kept
strip(s) ==
    LET keep == {i \in 1..Len(s) : s[i] \notin Whitespace}
    IN  IF keep = {} THEN << >> ELSE SubSeq(s, SetMin(keep), SetMax(keep))

\* str.replace(a, b) for single characters a and b
replace(s, a, b) == [i \in 1..Len(s) |-> IF s[i] = a THEN b ELSE s[i]]

\* str.title(): a letter that follows a non-letter (or starts the string)
\* is uppercased, every other letter is lowercased
title(s) ==
    [i \in 1..Len(s) |->
        IF i = 1 \/ ~IsAlphaChar(s[i - 1])
        THEN upper_char(s[i])
        ELSE lower_char(s[i])]

\* Python's  sub in s  on strings
contains(sub, s) ==
    \E k \in 0..(Len(s) - Len(sub)) : \A j \in 1..Len(sub) : s[k + j] = sub[j]

\* str.isalpha(): non-empty and every character alphabetic
isalpha(s) == Len(s) > 0 /\ \A i \in 1..Len(s) : IsAlphaChar(s[i])

\* str.isdigit(): non-empty and every character a digit
isdigit(s) == Len(s) > 0 /\ \A i \in 1..Len(s) : s[i] \in DigitChars

(***************************************************************************)
(* JSON objects and None                                                   *)
(***************************************************************************)
NoneVal == [py_none |-> TRUE]

\* dict.get(k, default)
Get(d, k, default) == IF k \in DOMAIN d THEN d[k] ELSE default

\* truthiness of  d.get(k)  for a string- or object-valued key: present
\* and neither "" nor {}
HasTruthy(d, k) == k \in DOMAIN d /\ DOMAIN d[k] # {}

\* truthiness of the value make_api_request returned: neither None nor {}
Truthy(d) == d # NoneVal /\ DOMAIN d # {}

\* the button handler's format test on the cleaned company number:
\* cleaned[:2] is its first two characters, cleaned[2:] the rest
valid_format(cleaned) ==
    \/ Len(cleaned) = 8
    \/ /\ Len(cleaned) > 1
       /\ isalpha(SubSeq(cleaned, 1, 2))
       /\ isdigit(SubSeq(cleaned, 3, Len(cleaned)))

NA == <<"N","/","A">>

(***************************************************************************)
(* Program constants                                                       *)
(***************************************************************************)
MAX_DEPTH == 4

uk_keywords ==
    { <<"u","n","i","t","e","d"," ","k","i","n","g","d","o","m">>, <<"e","n","g","l","a","n","d">>, <<"w","a","l","e","s">>, <<"s","c","o","t","l","a","n","d">>,
      <<"n","o","r","t","h","e","r","n"," ","i","r","e","l","a","n","d">>, <<"c","o","m","p","a","n","i","e","s"," ","h","o","u","s","e">>, <<"g","r","e","a","t"," ","b","r","i","t","a","i","n">> }

CorporateTreeKinds ==
    { <<"C","o","r","p","o","r","a","t","e"," ","E","n","t","i","t","y"," ","P","e","r","s","o","n"," ","W","i","t","h"," ","S","i","g","n","i","f","i","c","a","n","t"," ","C","o","n","t","r","o","l">>,
      <<"L","e","g","a","l"," ","P","e","r","s","o","n"," ","P","e","r","s","o","n"," ","W","i","t","h"," ","S","i","g","n","i","f","i","c","a","n","t"," ","C","o","n","t","r","o","l">> }

(***************************************************************************)
(* Classification of a controlling party                                   *)
(***************************************************************************)
\* psc.get("kind", default).replace("-", " ").title()
KindLabel(psc, default) == title(replace(Get(psc, "kind", default), "-", " "))

\* IsIndividualKind without the test for "Legal"
IsIndividualKindNoLegal(psc_kind) ==
    \/ contains(<<"I","n","d","i","v","i","d","u","a","l">>, psc_kind)
    \/ /\ contains(<<"P","e","r","s","o","n"," ","W","i","t","h"," ","S","i","g","n","i","f","i","c","a","n","t"," ","C","o","n","t","r","o","l">>, psc_kind)
       /\ ~contains(<<"C","o","r","p","o","r","a","t","e">>, psc_kind)

\* the "heuristic for individual" of the summary; Python's  or  binds
\* weaker than  and
IsIndividualKind(psc_kind) ==
    \/ contains(<<"I","n","d","i","v","i","d","u","a","l">>, psc_kind)
    \/ /\ contains(<<"P","e","r","s","o","n"," ","W","i","t","h"," ","S","i","g","n","i","f","i","c","a","n","t"," ","C","o","n","t","r","o","l">>, psc_kind)
       /\ ~contains(<<"C","o","r","p","o","r","a","t","e">>, psc_kind)
       /\ ~contains(<<"L","e","g","a","l">>, psc_kind)

\* the elif branch of the summary, tried only when not individual
IsCorporateKindSummary(psc_kind) ==
    \/ contains(<<"C","o","r","p","o","r","a","t","e"," ","E","n","t","i","t","y">>, psc_kind)
    \/ contains(<<"L","e","g","a","l"," ","P","e","r","s","o","n">>, psc_kind)

\* IsCorporateKindTree with the substring test of the summary
IsCorporateKindTreeSubstring(psc_kind) ==
    \/ contains(<<"C","o","r","p","o","r","a","t","e"," ","E","n","t","i","t","y">>, psc_kind)
    \/ contains(<<"L","e","g","a","l"," ","P","e","r","s","o","n">>, psc_kind)

\* the kind test of the tree: membership in a list of two exact labels
IsCorporateKindTree(psc_kind) == psc_kind \in CorporateTreeKinds

AnyKeywordIn(text) == \E keyword \in uk_keywords : contains(keyword, lower(text))

\* is_uk_like without the branch for a record that names no country and
\* no place
is_uk_like_keywords_only(identification) ==
    \/ /\ HasTruthy(identification, "country_registered")
       /\ AnyKeywordIn(identification["country_registered"])
    \/ /\ HasTruthy(identification, "place_registered")
       /\ AnyKeywordIn(identification["place_registered"])

\* is_uk_like after the if / elif / elif chain
is_uk_like(identification) ==
    IF HasTruthy(identification, "country_registered")
          /\ AnyKeywordIn(identification["country_registered"])
    THEN TRUE
    ELSE IF HasTruthy(identification, "place_registered")
              /\ AnyKeywordIn(identification["place_registered"])
         THEN TRUE
         ELSE ~HasTruthy(identification, "country_registered")
                 /\ ~HasTruthy(identification, "place_registered")

\* the Jurisdiction Classifier as the tree applies it: a registration
\* number is there and the registration looks domestic
isRecursable(identification) ==
    HasTruthy(identification, "registration_number") /\ is_uk_like(identification)

\* corporate_psc_company_number_to_recurse: << >> stands for None and for
\* the empty string, which the test  if corporate_psc_company_number_to_recurse
\* treats alike
RecurseTarget(psc) ==
    IF /\ HasTruthy(psc, "identification")
       /\ IsCorporateKindTree(KindLabel(psc, NA))
       /\ isRecursable(psc["identification"])
    THEN upper(strip(psc["identification"]["registration_number"]))
    ELSE << >>

(***************************************************************************)
(* Registry data: the JSON the Companies House API answers with            *)
(***************************************************************************)
KindIndividual == <<"i","n","d","i","v","i","d","u","a","l","-","p","e","r","s","o","n","-","w","i","t","h","-","s","i","g","n","i","f","i","c","a","n","t","-","c","o","n","t","r","o","l">>

KindCorporate == <<"c","o","r","p","o","r","a","t","e","-","e","n","t","i","t","y","-","p","e","r","s","o","n","-","w","i","t","h","-","s","i","g","n","i","f","i","c","a","n","t","-","c","o","n","t","r","o","l">>

KindLegal == <<"l","e","g","a","l","-","p","e","r","s","o","n","-","p","e","r","s","o","n","-","w","i","t","h","-","s","i","g","n","i","f","i","c","a","n","t","-","c","o","n","t","r","o","l">>

\* a company profile as /company/{number} returns it
Profile(number, name) ==
    [company_number |-> number, company_name |-> name,
     company_status |-> "active", jurisdiction |-> <<"e","n","g","l","a","n","d","-","w","a","l","e","s">>]

\* an individual controller
Person(name) == [name |-> name, kind |-> KindIndividual]

\* a corporate controller registered in the United Kingdom
UkCorp(name, reg) ==
    [name |-> name, kind |-> KindCorporate,
     identification |->
        [registration_number |-> reg, country_registered |-> <<"U","n","i","t","e","d"," ","K","i","n","g","d","o","m">>]]

\* the three resources of one company
Company(number, name, items) ==
    [profile |-> Profile(number, name),
     pscs |-> [items |-> items],
     filings |-> [items |-> << >>]]

Filing(id, category, description) ==
    [transaction_id |-> id, category |-> category, description |-> description]

\* A and B control each other
CycleRegistry ==
    ( <<"A","B","0","0","0","0","0","1">> :> Company(<<"A","B","0","0","0","0","0","1">>, "A Ltd", << UkCorp("B Ltd", <<"A","B","0","0","0","0","0","2">>) >>) )
 @@ ( <<"A","B","0","0","0","0","0","2">> :> Company(<<"A","B","0","0","0","0","0","2">>, "B Ltd", << UkCorp("A Ltd", <<"A","B","0","0","0","0","0","1">>) >>) )

\* a ring of MAX_DEPTH + 1 companies: the seed is met again at depth
\* MAX_DEPTH + 1
RingRegistry ==
    ( <<"R","G","0","0","0","0","0","1">> :> Company(<<"R","G","0","0","0","0","0","1">>, "R1", << UkCorp("R2", <<"R","G","0","0","0","0","0","2">>) >>) )
 @@ ( <<"R","G","0","0","0","0","0","2">> :> Company(<<"R","G","0","0","0","0","0","2">>, "R2", << UkCorp("R3", <<"R","G","0","0","0","0","0","3">>) >>) )
 @@ ( <<"R","G","0","0","0","0","0","3">> :> Company(<<"R","G","0","0","0","0","0","3">>, "R3", << UkCorp("R4", <<"R","G","0","0","0","0","0","4">>) >>) )
 @@ ( <<"R","G","0","0","0","0","0","4">> :> Company(<<"R","G","0","0","0","0","0","4">>, "R4", << UkCorp("R5", <<"R","G","0","0","0","0","0","5">>) >>) )
 @@ ( <<"R","G","0","0","0","0","0","5">> :> Company(<<"R","G","0","0","0","0","0","5">>, "R5", << UkCorp("R1", <<"R","G","0","0","0","0","0","1">>) >>) )

\* a linear chain of MAX_DEPTH + 3 companies
ChainRegistry ==
    ( <<"C","H","0","0","0","0","0","0">> :> Company(<<"C","H","0","0","0","0","0","0">>, "C0", << UkCorp("C1", <<"C","H","0","0","0","0","0","1">>) >>) )
 @@ ( <<"C","H","0","0","0","0","0","1">> :> Company(<<"C","H","0","0","0","0","0","1">>, "C1", << UkCorp("C2", <<"C","H","0","0","0","0","0","2">>) >>) )
 @@ ( <<"C","H","0","0","0","0","0","2">> :> Company(<<"C","H","0","0","0","0","0","2">>, "C2", << UkCorp("C3", <<"C","H","0","0","0","0","0","3">>) >>) )
 @@ ( <<"C","H","0","0","0","0","0","3">> :> Company(<<"C","H","0","0","0","0","0","3">>, "C3", << UkCorp("C4", <<"C","H","0","0","0","0","0","4">>) >>) )
 @@ ( <<"C","H","0","0","0","0","0","4">> :> Company(<<"C","H","0","0","0","0","0","4">>, "C4", << UkCorp("C5", <<"C","H","0","0","0","0","0","5">>) >>) )
 @@ ( <<"C","H","0","0","0","0","0","5">> :> Company(<<"C","H","0","0","0","0","0","5">>, "C5", << UkCorp("C6", <<"C","H","0","0","0","0","0","6">>) >>) )
 @@ ( <<"C","H","0","0","0","0","0","6">> :> Company(<<"C","H","0","0","0","0","0","6">>, "C6", << Person("Eve") >>) )

\* A is controlled by B and C, both controlled by D
DiamondRegistry ==
    ( <<"D","M","0","0","0","0","0","A">> :> Company(<<"D","M","0","0","0","0","0","A">>, "A Ltd",
                        << UkCorp("B Ltd", <<"D","M","0","0","0","0","0","B">>), UkCorp("C Ltd", <<"D","M","0","0","0","0","0","C">>) >>) )
 @@ ( <<"D","M","0","0","0","0","0","B">> :> Company(<<"D","M","0","0","0","0","0","B">>, "B Ltd", << UkCorp("D Ltd", <<"D","M","0","0","0","0","0","D">>) >>) )
 @@ ( <<"D","M","0","0","0","0","0","C">> :> Company(<<"D","M","0","0","0","0","0","C">>, "C Ltd", << UkCorp("D Ltd", <<"D","M","0","0","0","0","0","D">>) >>) )
 @@ ( <<"D","M","0","0","0","0","0","D">> :> Company(<<"D","M","0","0","0","0","0","D">>, "D Ltd", << Person("Bob") >>) )

\* a seed with controllers of every sort, and companies whose resources
\* have unusual shapes
MixedRegistry ==
    ( <<"M","X","0","0","0","0","0","1">> :>
        [profile |-> [company_name |-> "Mixed Ltd", company_number |-> <<"M","X","0","0","0","0","0","1">>,
                      jurisdiction |-> <<"s","c","o","t","l","a","n","d">>],
         pscs |-> [items |-> <<
            Person("Ann"),
            [name |-> "Delaware Inc", kind |-> KindCorporate,
             identification |-> [registration_number |-> <<"M","X","0","0","0","0","0","2">>,
                                 country_registered |-> <<"D","e","l","a","w","a","r","e",","," ","U","S","A">>]],
            [name |-> "Lower Ltd", kind |-> KindLegal,
             identification |-> [registration_number |-> <<" ","m","x","0","0","0","0","0","3"," ">>,
                                 place_registered |-> <<"C","o","m","p","a","n","i","e","s"," ","H","o","u","s","e">>]],
            [name |-> "Ghost Ltd", kind |-> KindCorporate,
             identification |-> [registration_number |-> <<"M","X","0","0","0","0","0","9">>]],
            [name |-> "Blank Ltd", kind |-> KindCorporate,
             identification |-> [registration_number |-> <<" "," ">>,
                                 country_registered |-> <<"E","n","g","l","a","n","d">>]],
            [name |-> "Exempt Ltd", kind |-> KindCorporate,
             identification |-> [registration_number |-> <<"M","X","0","0","0","0","0","4">>,
                                 country_registered |-> <<"W","a","l","e","s">>]],
            [name |-> "Odd Ltd", kind |-> KindCorporate,
             identification |-> [registration_number |-> <<"M","X","0","0","0","0","0","5">>,
                                 country_registered |-> <<"U","N","I","T","E","D"," ","K","I","N","G","D","O","M">>]],
            [name |-> "Statement", kind |-> <<"p","e","r","s","o","n","s","-","w","i","t","h","-","s","i","g","n","i","f","i","c","a","n","t","-","c","o","n","t","r","o","l","-","s","t","a","t","e","m","e","n","t">>]
         >>],
         filings |-> [items |-> <<
            Filing(1, <<"c","a","p","i","t","a","l">>, <<"c","a","p","i","t","a","l","-","a","l","l","o","t","m","e","n","t","-","s","h","a","r","e","s">>),
            Filing(2, <<"a","c","c","o","u","n","t","s">>, <<"a","c","c","o","u","n","t","s","-","w","i","t","h","-","a","c","c","o","u","n","t","s","-","t","y","p","e","-","s","m","a","l","l">>),
            Filing(3, <<"c","o","n","f","i","r","m","a","t","i","o","n","-","s","t","a","t","e","m","e","n","t">>, <<"c","o","n","f","i","r","m","a","t","i","o","n","-","s","t","a","t","e","m","e","n","t","-","w","i","t","h","-","u","p","d","a","t","e","s"," ","C","S","0","1">>)
         >>] ] )
 @@ ( <<"M","X","0","0","0","0","0","2">> :> Company(<<"M","X","0","0","0","0","0","2">>, "Delaware Inc", << Person("Dan") >>) )
 @@ ( <<"M","X","0","0","0","0","0","3">> :> Company(<<"M","X","0","0","0","0","0","3">>, "Lower Ltd", << Person("Lou") >>) )
 @@ ( <<"M","X","0","0","0","0","0","4">> :> Company(<<"M","X","0","0","0","0","0","4">>, "Exempt Ltd", << >>) )
 @@ ( <<"M","X","0","0","0","0","0","5">> :>
        [profile |-> Profile(<<"M","X","0","0","0","0","0","5">>, "Odd Ltd"),
         pscs |-> [active_count |-> 0],
         filings |-> [items |-> << >>] ] )

(***************************************************************************)
(* A family of registries around one controlling party: the seed           *)
(* PR000001 has the single controller psc, and PR000002 exists.            *)
(***************************************************************************)
ProbeKinds ==
    { KindIndividual, KindCorporate, KindLegal,
      <<"C","O","R","P","O","R","A","T","E","-","E","N","T","I","T","Y","-","P","E","R","S","O","N","-","W","I","T","H","-","S","I","G","N","I","F","I","C","A","N","T","-","C","O","N","T","R","O","L">>,
      <<"s","u","p","e","r","-","s","e","c","u","r","e","-","p","e","r","s","o","n","-","w","i","t","h","-","s","i","g","n","i","f","i","c","a","n","t","-","c","o","n","t","r","o","l">>,
      <<"p","e","r","s","o","n","s","-","w","i","t","h","-","s","i","g","n","i","f","i","c","a","n","t","-","c","o","n","t","r","o","l","-","s","t","a","t","e","m","e","n","t">>,
      <<"c","o","r","p","o","r","a","t","e","-","e","n","t","i","t","y","-","b","e","n","e","f","i","c","i","a","l","-","o","w","n","e","r">>,
      <<"i","n","d","i","v","i","d","u","a","l","-","b","e","n","e","f","i","c","i","a","l","-","o","w","n","e","r">> }

ProbeRegs == { << >>, <<" "," ">>, <<"P","R","0","0","0","0","0","2">>, <<" ","p","r","0","0","0","0","0","2"," ">> }

ProbeCountries == { << >>, <<"U","n","i","t","e","d"," ","K","i","n","g","d","o","m">>, <<"D","e","l","a","w","a","r","e",","," ","U","S","A">>, <<"E","N","G","L","A","N","D">> }

ProbePlaces == { << >>, <<"C","o","m","p","a","n","i","e","s"," ","H","o","u","s","e">>, <<"P","a","r","i","s">>, <<"N","e","w"," ","S","o","u","t","h"," ","W","a","l","e","s">> }

\* the record with the keys of d whose index is in keep
Restrict(d, keep) == [k \in keep |-> d[k]]

\* identification records: every subset of the three keys, every value
ProbeIdentifications ==
    { Restrict([registration_number |-> r, country_registered |-> c, place_registered |-> p], keys) :
        r \in ProbeRegs, c \in ProbeCountries, p \in ProbePlaces,
        keys \in SUBSET {"registration_number", "country_registered", "place_registered"} }

ProbePscs ==
    { [name |-> "Probe", kind |-> k, identification |-> ident] :
        k \in ProbeKinds, ident \in ProbeIdentifications }
    \cup { [name |-> "Probe", kind |-> k] : k \in ProbeKinds }
    \cup { [name |-> "Probe", identification |-> ident] : ident \in ProbeIdentifications }

ProbeRegistry(psc) ==
    ( <<"P","R","0","0","0","0","0","1">> :> Company(<<"P","R","0","0","0","0","0","1">>, "Probe Holdings", << psc >>) )
 @@ ( <<"P","R","0","0","0","0","0","2">> :> Company(<<"P","R","0","0","0","0","0","2">>, "Probe Parent", << Person("Pat") >>) )

(***************************************************************************)
(* Every controls graph over three companies: controls[c] is the set of    *)
(* companies listed as corporate controllers of c, in the order of         *)
(* GraphOrder.                                                             *)
(***************************************************************************)
GraphOrder == << <<"G","R","0","0","0","0","0","1">>, <<"G","R","0","0","0","0","0","2">>, <<"G","R","0","0","0","0","0","3">> >>

GraphCompanies == { GraphOrder[k] : k \in 1..Len(GraphOrder) }

GraphControls == [GraphCompanies -> SUBSET GraphCompanies]

GraphItems(controllers) ==
    LET listed == SelectSeq(GraphOrder, LAMBDA c : c \in controllers)
    IN  [k \in 1..Len(listed) |-> UkCorp("G Ltd", listed[k])]

GraphRegistry(controls) ==
    [c \in GraphCompanies |-> Company(c, "G Ltd", GraphItems(controls[c]))]

(***************************************************************************)
(* Text typed into the company number field                                *)
(***************************************************************************)
MaxPrefix == 2

MaxDigits == 7

InputChars == {"S", "c", "7", " ", "-"}

RECURSIVE Strings(_, _)
\* every string over alphabet of length at most n
Strings(alphabet, n) ==
    IF n = 0 THEN { << >> }
    ELSE LET shorter == Strings(alphabet, n - 1)
         IN  shorter \cup { Append(s, c) : s \in shorter, c \in alphabet }

DigitRun(n) == [i \in 1..n |-> "0"]

\* a prefix of free characters, a run of digits, an optional last character
TypedInputs ==
    { p \o DigitRun(n) \o q :
        p \in Strings(InputChars, MaxPrefix), n \in 0..MaxDigits,
        q \in Strings(InputChars, 1) }

\* the longest filing history a registry answers with
MaxFilings == 17

\* one entry of a filing history: the second is the annual accounts, the
\* others are allotments of shares, filed under the capital category or
\* told by their description alone
HistoryItem(k) ==
    IF k = 2 THEN Filing(k, <<"a","c","c","o","u","n","t","s">>, <<"a","c","c","o","u","n","t","s","-","w","i","t","h","-","a","c","c","o","u","n","t","s","-","t","y","p","e","-","s","m","a","l","l">>)
    ELSE IF k % 2 = 1 THEN Filing(k, <<"c","a","p","i","t","a","l">>, <<"c","a","p","i","t","a","l","-","a","l","l","o","t","m","e","n","t","-","s","h","a","r","e","s">>)
    ELSE Filing(k, <<"m","i","s","c","e","l","l","a","n","e","o","u","s">>, <<"R","e","t","u","r","n"," ","o","f"," ","A","l","l","o","t","m","e","n","t"," ","o","f"," ","s","h","a","r","e","s"," ","S","H","0","1">>)

\* a company without controllers whose filing history has n entries
FilingsRegistry(n) ==
    ( <<"F","H","0","0","0","0","0","1">> :>
        [profile |-> Profile(<<"F","H","0","0","0","0","0","1">>, "Filer Ltd"),
         pscs |-> [items |-> << >>],
         filings |-> [items |-> [k \in 1..n |-> HistoryItem(k)]] ] )

(***************************************************************************)
(* Worlds: the registry a run is made against, the inputs tried on it and  *)
(* whether the registry's answers may fail                                 *)
(***************************************************************************)
NamedWorlds == {"cycle", "ring", "chain", "diamond", "mixed", "typed"}

Worlds ==
    { [name |-> n, arg |-> << >>] : n \in NamedWorlds }
    \cup { [name |-> "probe", arg |-> p] : p \in ProbePscs }
    \cup { [name |-> "graph", arg |-> c] : c \in GraphControls }
    \cup { [name |-> "filings", arg |-> n] : n \in 0..MaxFilings }

RegistryOf(w) ==
    CASE w.name = "cycle"   -> CycleRegistry
      [] w.name = "ring"    -> RingRegistry
      [] w.name = "chain"   -> ChainRegistry
      [] w.name = "diamond" -> DiamondRegistry
      [] w.name = "mixed"   -> MixedRegistry
      [] w.name = "typed"   -> CycleRegistry
      [] w.name = "probe"   -> ProbeRegistry(w.arg)
      [] w.name = "graph"   -> GraphRegistry(w.arg)
      [] w.name = "filings" -> FilingsRegistry(w.arg)

InputsOf(w) ==
    CASE w.name = "cycle"   -> { <<"A","B","0","0","0","0","0","1">>, <<" ","a","b","0","0","0","0","0","1">> }
      [] w.name = "ring"    -> { <<"R","G","0","0","0","0","0","1">> }
      [] w.name = "chain"   -> { <<"C","H","0","0","0","0","0","0">>, <<"c","h","0","0","0","0","0","0"," ">> }
      [] w.name = "diamond" -> { <<"D","M","0","0","0","0","0","A">> }
      [] w.name = "mixed"   -> { <<"M","X","0","0","0","0","0","1">>, <<"M","X","0","0","0","0","0","4">>, <<"M","X","0","0","0","0","0","5">> }
      [] w.name = "typed"   -> TypedInputs
      [] w.name = "probe"   -> { <<"P","R","0","0","0","0","0","1">> }
      [] w.name = "graph"   -> { <<"G","R","0","0","0","0","0","1">> }
      [] w.name = "filings" -> { <<"F","H","0","0","0","0","0","1">> }

(***************************************************************************)
(* State                                                                   *)
(***************************************************************************)
VARIABLES
    world,     \* the registry of this run (fixed by Init)
    input,     \* company_number_input
    phase,     \* "idle", "running", "done", "rejected" or "raised"
    stack,     \* the frames of display_ownership_tree, innermost last
    heap,      \* the visited_companies set objects, by reference
    calls,     \* every invocation of display_ownership_tree, in call order
    out,       \* what was rendered (st.markdown, st.warning, st.error)
    requests,  \* every requests.get issued, with its outcome
    faults     \* how many failures the registry has injected

vars == <<world, input, phase, stack, heap, calls, out, requests, faults>>

MaxFaults == 1

Registry == RegistryOf(world)

(***************************************************************************)
(* Registry client                                                         *)
(***************************************************************************)
\* what the registry answers when nothing goes wrong: the resource, or 404
Natural(number, resource) ==
    IF number \in DOMAIN Registry
    THEN [kind |-> "ok", status |-> 200, body |-> Registry[number][resource]]
    ELSE [kind |-> "http", status |-> 404, body |-> NoneVal]

\* what can go wrong with a request
Faults ==
    { [kind |-> "http", status |-> s, body |-> NoneVal] : s \in {401, 404, 429, 500} }
    \cup { [kind |-> "transport", status |-> 0, body |-> NoneVal],
           [kind |-> "decode", status |-> 200, body |-> NoneVal] }

\* in the named worlds up to MaxFaults requests may fail; the probe and
\* graph worlds are explored against a registry that answers every request
Outcomes(number, resource) ==
    { Natural(number, resource) }
    \cup (IF faults < MaxFaults /\ world.name \in NamedWorlds THEN Faults ELSE {})

FaultsAfter(number, resource, o) ==
    IF o = Natural(number, resource) THEN faults ELSE faults + 1

\* make_api_request without the handler for json.JSONDecodeError
make_api_request_uncaught(o) ==
    CASE o.kind = "ok" ->
            [data |-> o.body, msg |-> "none", raised |-> FALSE]
      [] o.kind = "http" ->
            [data |-> NoneVal, msg |-> "error-http", raised |-> FALSE]
      [] o.kind = "transport" ->
            [data |-> NoneVal, msg |-> "error-request", raised |-> FALSE]
      [] o.kind = "decode" ->
            [data |-> NoneVal, msg |-> "none", raised |-> TRUE]

\* make_api_request: the JSON on success; on every failure a message and None.
\* raised tells whether an exception leaves the function.
make_api_request(o) ==
    CASE o.kind = "ok" ->
            [data |-> o.body, msg |-> "none", raised |-> FALSE]
      [] o.kind = "http" /\ o.status = 404 ->
            [data |-> NoneVal, msg |-> "warning-404", raised |-> FALSE]
      [] o.kind = "http" /\ o.status = 401 ->
            [data |-> NoneVal, msg |-> "error-401", raised |-> FALSE]
      [] o.kind = "http" /\ o.status = 429 ->
            [data |-> NoneVal, msg |-> "error-429", raised |-> FALSE]
      [] o.kind = "http" /\ o.status \notin {401, 404, 429} ->
            [data |-> NoneVal, msg |-> "error-http", raised |-> FALSE]
      [] o.kind = "transport" ->
            [data |-> NoneVal, msg |-> "error-request", raised |-> FALSE]
      [] o.kind = "decode" ->
            [data |-> NoneVal, msg |-> "error-json", raised |-> FALSE]

\* one rendered line
Ev(ev, f, i) == [ev |-> ev, inv |-> f.inv, depth |-> f.depth, cn |-> f.ncn, i |-> i]

\* the message make_api_request renders, if any
ApiMsg(r, f) == IF r.msg = "none" THEN << >> ELSE << Ev(r.msg, f, 0) >>

\* one issued request
Req(resource, number, o, f, by) ==
    [resource |-> resource, number |-> number, kind |-> o.kind, status |-> o.status,
     inv |-> f.inv, by |-> by]

(***************************************************************************)
(* Frames of display_ownership_tree                                        *)
(***************************************************************************)
\* the frame of a call display_ownership_tree(cn, depth, <set vref>, initial)
NewFrame(inv, cn, depth, vref, initial) ==
    [inv |-> inv, cn |-> cn, ncn |-> << >>, depth |-> depth, vref |-> vref,
     initial |-> initial, pc |-> "entry",
     profile |-> NoneVal, pscs |-> NoneVal, i |-> 0,
     j |-> 0, key_individuals |-> << >>, filings |-> << >>]

Top == stack[Len(stack)]

SetTop(f) == [stack EXCEPT ![Len(stack)] = f]

Pop == SubSeq(stack, 1, Len(stack) - 1)

\* the phase once the innermost call has returned
PhaseAfterReturn == IF Len(stack) = 1 THEN "done" ELSE "running"

\* an exception unwinds every frame
Unwind ==
    /\ phase' = "raised"
    /\ stack' = << >>

At(pc) == phase = "running" /\ stack # << >> /\ Top.pc = pc

(***************************************************************************)
(* Filing Relevance Filter (get_formatted_relevant_filing_history)         *)
(***************************************************************************)
relevant_categories == { <<"c","a","p","i","t","a","l">>, <<"r","e","s","o","l","u","t","i","o","n">>, <<"i","n","c","o","r","p","o","r","a","t","i","o","n">> }

relevant_description_keywords ==
    { <<"s","t","a","t","e","m","e","n","t"," ","o","f"," ","c","a","p","i","t","a","l">>, <<"s","h","0","1">>, <<"c","s","0","1">>, <<"a","l","l","o","t","m","e","n","t">>, <<"s","h","a","r","e","s"," ","a","l","l","o","t","t","e","d">>,
      <<"r","e","t","u","r","n"," ","o","f"," ","a","l","l","o","t","m","e","n","t">>, <<"c","a","p","i","t","a","l">>, <<"i","n","c","r","e","a","s","e"," ","i","n"," ","s","h","a","r","e"," ","c","a","p","i","t","a","l">>,
      <<"r","e","d","u","c","t","i","o","n"," ","o","f"," ","s","h","a","r","e"," ","c","a","p","i","t","a","l">>, <<"r","e","s","o","l","u","t","i","o","n"," ","r","e","l","a","t","i","n","g"," ","t","o"," ","s","h","a","r","e"," ","c","a","p","i","t","a","l">>,
      <<"c","h","a","n","g","e"," ","o","f"," ","s","h","a","r","e"," ","c","l","a","s","s">>, <<"r","e","-","d","e","n","o","m","i","n","a","t","i","o","n"," ","o","f"," ","s","h","a","r","e"," ","c","a","p","i","t","a","l">> }

is_relevant(item) ==
    \/ lower(Get(item, "category", << >>)) \in relevant_categories
    \/ \E keyword \in relevant_description_keywords :
          contains(keyword, lower(Get(item, "description", << >>)))

\* relevant_filings_md: one entry per relevant filing in registry order, or
\* a single line saying that there is none or that the fetch failed
relevant_filings(filing_data) ==
    IF Truthy(filing_data) /\ "items" \in DOMAIN filing_data
    THEN LET found == SelectSeq(filing_data.items, is_relevant)
         IN  IF found # << >>
             THEN [k \in 1..Len(found) |->
                      [line |-> "filing",
                       transaction_id |-> Get(found[k], "transaction_id", 0)]]
             ELSE << [line |-> "none-identified"] >>
    ELSE << [line |-> "unavailable"] >>

(***************************************************************************)
(* The button handler                                                      *)
(***************************************************************************)
Line(ev, inv, depth, cn, i) == [ev |-> ev, inv |-> inv, depth |-> depth, cn |-> cn, i |-> i]

Reject(ev) ==
    /\ phase' = "rejected"
    /\ out' = Append(out, Line(ev, 0, 0, << >>, 0))
    /\ UNCHANGED <<stack, heap, calls>>

\* if st.button(...): validate the text and start the traversal with set()
Submit ==
    /\ phase = "idle"
    /\ LET cleaned_company_number == upper(strip(input))
       IN  IF input = << >>
           THEN Reject("warn-enter-number")
           ELSE IF ~valid_format(cleaned_company_number)
                THEN Reject("warn-format")
                ELSE /\ phase' = "running"
                     /\ heap' = << {} >>
                     /\ stack' = << NewFrame(1, cleaned_company_number, 0, 1, TRUE) >>
                     /\ calls' = << [inv |-> 1, cn |-> cleaned_company_number, depth |-> 0,
                                     vref |-> 1, ventry |-> {}, initial |-> TRUE,
                                     parent |-> 0, pidx |-> 0] >>
                     /\ out' = out
    /\ UNCHANGED <<world, input, requests, faults>>

(***************************************************************************)
(* display_ownership_tree                                                  *)
(***************************************************************************)
\* display_ownership_tree without the depth guard
DepthExceededNever(current_depth) == FALSE

\* the depth guard one level late
DepthExceededLate(current_depth) == current_depth > MAX_DEPTH + 1

\* if current_depth > MAX_DEPTH
DepthExceeded(current_depth) == current_depth > MAX_DEPTH

\* the repeat guard with the flag inverted
AlreadyVisitedInverted(normalised_company_number, visited_companies, initial_call) ==
    normalised_company_number \in visited_companies /\ initial_call

\* if normalised_company_number in visited_companies and not initial_call
AlreadyVisited(normalised_company_number, visited_companies, initial_call) ==
    normalised_company_number \in visited_companies /\ ~initial_call

\* the visited set overwritten with the identifier instead of extended
visited_overwritten(h, vref, normalised_company_number) ==
    [h EXCEPT ![vref] = {normalised_company_number}]

\* visited_companies.add(normalised_company_number), on the set object vref
visited_add(h, vref, normalised_company_number) ==
    [h EXCEPT ![vref] = @ \cup {normalised_company_number}]

\* the visited set passed on by reference
visited_shared(h, vref) == [heap |-> h, vref |-> vref]

\* visited_companies.copy(): a new set object with the same elements
visited_copy(h, vref) == [heap |-> Append(h, h[vref]), vref |-> Len(h) + 1]

Return ==
    /\ stack' = Pop
    /\ phase' = PhaseAfterReturn

\* entry of a call: depth guard, normalisation, repeat guard, visited.add
Enter ==
    /\ At("entry")
    /\ LET f == Top
           normalised_company_number == upper(strip(f.cn))
           g == [f EXCEPT !.ncn = normalised_company_number]
       IN  IF DepthExceeded(f.depth)
           THEN /\ out' = Append(out, Ev("MaxDepthReached", f, 0))
                /\ Return
                /\ heap' = heap
           ELSE IF AlreadyVisited(normalised_company_number, heap[f.vref], f.initial)
                THEN /\ out' = Append(out, Ev("CycleDetected", g, 0))
                     /\ Return
                     /\ heap' = heap
                ELSE /\ heap' = visited_add(heap, f.vref, normalised_company_number)
                     /\ stack' = SetTop([g EXCEPT !.pc = "profile"])
                     /\ UNCHANGED <<out, phase>>
    /\ UNCHANGED <<world, input, calls, requests, faults>>

\* the heading of a company other than the seed, and its details
Header(f, profile_data) ==
    LET jurisdiction == title(replace(Get(profile_data, "jurisdiction", NA), "-", " "))
    IN  IF ~f.initial \/ f.depth > 0
        THEN << Ev("NodeVisit", f, 0) >>
             \o (IF ~f.initial
                 THEN << Ev("Details", f, 0) >>
                      \o (IF jurisdiction \notin { <<"E","n","g","l","a","n","d"," ","W","a","l","e","s">>, <<"U","n","i","t","e","d"," ","K","i","n","g","d","o","m">>, NA }
                          THEN << Ev("Jurisdiction", f, 0) >>
                          ELSE << >>)
                 ELSE << >>)
        ELSE << >>

\* profile_data = make_api_request(profile_url, ...); if not profile_data: return
FetchProfile ==
    /\ At("profile")
    /\ \E o \in Outcomes(Top.ncn, "profile") :
        LET f == Top
            r == make_api_request(o)
        IN  /\ requests' = Append(requests, Req("profile", f.ncn, o, f, "tree"))
            /\ faults' = FaultsAfter(f.ncn, "profile", o)
            /\ IF r.raised
               THEN Unwind /\ out' = out
               ELSE IF ~Truthy(r.data)
                    THEN /\ out' = out \o ApiMsg(r, f) \o << Ev("ProfileUnavailable", f, 0) >>
                         /\ Return
                    ELSE IF f.initial
                         THEN /\ out' = out \o ApiMsg(r, f)
                              /\ stack' = SetTop([f EXCEPT !.profile = r.data, !.pc = "top_pscs"])
                              /\ phase' = phase
                         ELSE /\ out' = out \o ApiMsg(r, f) \o Header(f, r.data)
                              /\ stack' = SetTop([f EXCEPT !.profile = r.data, !.pc = "pscs"])
                              /\ phase' = phase
    /\ UNCHANGED <<world, input, heap, calls>>

\* if initial_call: pscs_data_top_level = make_api_request(pscs_url, ...)
FetchTopPscs ==
    /\ At("top_pscs")
    /\ \E o \in Outcomes(Top.ncn, "pscs") :
        LET f == Top
            r == make_api_request(o)
        IN  /\ requests' = Append(requests, Req("pscs", f.ncn, o, f, "tree"))
            /\ faults' = FaultsAfter(f.ncn, "pscs", o)
            /\ out' = out \o ApiMsg(r, f)
            /\ IF r.raised
               THEN Unwind
               ELSE /\ stack' = SetTop([f EXCEPT !.pscs = r.data, !.pc = "summary", !.j = 1])
                    /\ phase' = phase
    /\ UNCHANGED <<world, input, heap, calls>>

(***************************************************************************)
(* generate_markdown_summary_and_guide, called for the seed                *)
(***************************************************************************)
\* the list a  for ... in data["items"]  runs over; nothing to run over
\* when data is None, {} or has no "items"
ItemsOf(data) ==
    IF Truthy(data) /\ "items" \in DOMAIN data THEN data.items ELSE << >>

\* corp_psc_number
CorpPscNumber(psc) ==
    Get(Get(psc, "identification", << >>), "registration_number", NA)

\* whether the summary asks the registry for the controllers of this party
SummaryFetches(psc) ==
    LET psc_kind == KindLabel(psc, << >>)
    IN  /\ ~IsIndividualKind(psc_kind)
        /\ IsCorporateKindSummary(psc_kind)
        /\ CorpPscNumber(psc) # NA

\* the individuals among the controllers of a first-level corporate party
SubIndividuals(data, corp_psc_number) ==
    LET subs == SelectSeq(ItemsOf(data),
                          LAMBDA sub_psc : IsIndividualKind(KindLabel(sub_psc, << >>)))
    IN  [k \in 1..Len(subs) |->
            [name |-> Get(subs[k], "name", "N/A"), of |-> corp_psc_number]]

\* one pass of  for psc in target_company_pscs["items"]  without a request
SummaryPsc ==
    /\ At("summary")
    /\ Top.j <= Len(ItemsOf(Top.pscs))
    /\ LET f == Top
           psc == ItemsOf(f.pscs)[f.j]
       IN  /\ ~SummaryFetches(psc)
           /\ stack' = SetTop([f EXCEPT
                  !.j = @ + 1,
                  !.key_individuals =
                      IF IsIndividualKind(KindLabel(psc, << >>))
                      THEN Append(@, [name |-> Get(psc, "name", "N/A"), of |-> << >>])
                      ELSE @])
    /\ UNCHANGED <<world, input, phase, heap, calls, out, requests, faults>>

\* one pass of the loop for a corporate party: its controllers are fetched
\* under corp_psc_number as the registry gave it
SummaryCorporatePsc ==
    /\ At("summary")
    /\ Top.j <= Len(ItemsOf(Top.pscs))
    /\ SummaryFetches(ItemsOf(Top.pscs)[Top.j])
    /\ \E o \in Outcomes(CorpPscNumber(ItemsOf(Top.pscs)[Top.j]), "pscs") :
        LET f == Top
            corp_psc_number == CorpPscNumber(ItemsOf(f.pscs)[f.j])
            r == make_api_request(o)
        IN  /\ requests' = Append(requests, Req("pscs", corp_psc_number, o, f, "summary"))
            /\ faults' = FaultsAfter(corp_psc_number, "pscs", o)
            /\ out' = out \o ApiMsg(r, f)
            /\ IF r.raised
               THEN Unwind
               ELSE /\ stack' = SetTop([f EXCEPT
                           !.j = @ + 1,
                           !.key_individuals = @ \o SubIndividuals(r.data, corp_psc_number)])
                    /\ phase' = phase
    /\ UNCHANGED <<world, input, heap, calls>>

\* the rendered summary box: the key individuals and the relevant filings
SummaryEv(f, filings) ==
    [ev |-> "Summary", inv |-> f.inv, depth |-> f.depth, cn |-> f.ncn, i |-> 0,
     key_individuals |-> f.key_individuals, filings |-> filings]

\* the rest of the summary: the filing history of the profile's company
\* number, then the summary box is rendered
SummaryFilings ==
    /\ At("summary")
    /\ Top.j > Len(ItemsOf(Top.pscs))
    /\ \E o \in Outcomes(Get(Top.profile, "company_number", NA), "filings") :
        LET f == Top
            company_number == Get(f.profile, "company_number", NA)
            r == make_api_request(o)
        IN  /\ requests' = Append(requests, Req("filings", company_number, o, f, "summary"))
            /\ faults' = FaultsAfter(company_number, "filings", o)
            /\ IF r.raised
               THEN Unwind /\ out' = out \o ApiMsg(r, f)
               ELSE /\ out' = out \o ApiMsg(r, f)
                               \o << SummaryEv(f, relevant_filings(r.data)) >>
                               \o Header(f, f.profile)
                    /\ stack' = SetTop([f EXCEPT !.filings = relevant_filings(r.data),
                                                 !.pc = "pscs"])
                    /\ phase' = phase
    /\ UNCHANGED <<world, input, heap, calls>>

(***************************************************************************)
(* The controllers of the current company                                  *)
(***************************************************************************)
\* PscsResult with  elif not data  in place of  elif data is None ... else
PscsResultNoNone(data) ==
    IF Truthy(data) /\ "items" \in DOMAIN data THEN "list" ELSE "format"

\* which branch of  if data and "items" in data / elif data is None / else
PscsResult(data) ==
    IF Truthy(data) /\ "items" \in DOMAIN data
    THEN "list"
    ELSE IF data = NoneVal THEN "unavailable" ELSE "format"

\* the PSC heading and what follows it for each result; a company without
\* a list to go through is finished with the separator line
Listing(f, data) ==
    LET result == PscsResult(data)
    IN  << Ev("PscHeader", f, 0) >>
        \o (CASE result = "list" ->
                    IF data.items = << >> THEN << Ev("NoControllers", f, 0) >> ELSE << >>
              [] result = "unavailable" ->
                    << Ev("ControllersUnavailable", f, 0), Ev("Separator", f, 0) >>
              [] result = "format" ->
                    << Ev("NoPscData", f, 0), Ev("Separator", f, 0) >>)

AfterListing(f, data) ==
    IF PscsResult(data) = "list"
    THEN /\ stack' = SetTop([f EXCEPT !.pscs = data, !.pc = "loop", !.i = 1])
         /\ phase' = phase
    ELSE Return

\* the seed: pscs_data_current_level = pscs_data_top_level
UseTopPscs ==
    /\ At("pscs")
    /\ Top.initial
    /\ out' = out \o Listing(Top, Top.pscs)
    /\ AfterListing(Top, Top.pscs)
    /\ UNCHANGED <<world, input, heap, calls, requests, faults>>

\* any other company: pscs_data_current_level = make_api_request(pscs_url, ...)
FetchPscs ==
    /\ At("pscs")
    /\ ~Top.initial
    /\ \E o \in Outcomes(Top.ncn, "pscs") :
        LET f == Top
            r == make_api_request(o)
        IN  /\ requests' = Append(requests, Req("pscs", f.ncn, o, f, "tree"))
            /\ faults' = FaultsAfter(f.ncn, "pscs", o)
            /\ IF r.raised
               THEN Unwind /\ out' = out \o ApiMsg(r, f)
               ELSE /\ out' = out \o ApiMsg(r, f) \o Listing(f, r.data)
                    /\ AfterListing(f, r.data)
    /\ UNCHANGED <<world, input, heap, calls>>

\* the rendered controlling party, carrying its record
ControllerEv(f, psc) ==
    [ev |-> "Controller", inv |-> f.inv, depth |-> f.depth, cn |-> f.ncn, i |-> f.i,
     psc |-> psc]

\* the loop taking the list from its last entry to its first
psc_reversed(items, i) == items[Len(items) + 1 - i]

\* the party of the i-th pass of  for psc in pscs_data_current_level["items"]
psc_in_order(items, i) == items[i]

\* one pass of  for psc in pscs_data_current_level["items"]: the party is
\* rendered and, with a company number to recurse on, display_ownership_tree
\* is called with depth + 1 and a copy of the visited set
ProcessPsc ==
    /\ At("loop")
    /\ Top.i <= Len(Top.pscs.items)
    /\ LET f == Top
           psc == psc_in_order(f.pscs.items, f.i)
           corporate_psc_company_number_to_recurse == RecurseTarget(psc)
           passed == visited_copy(heap, f.vref)
           inv == Len(calls) + 1
       IN  IF corporate_psc_company_number_to_recurse # << >>
           THEN /\ out' = out \o << ControllerEv(f, psc), Ev("FurtherAnalysis", f, f.i) >>
                /\ heap' = passed.heap
                /\ stack' = Append(SetTop([f EXCEPT !.i = @ + 1]),
                                   NewFrame(inv, corporate_psc_company_number_to_recurse,
                                            f.depth + 1, passed.vref, FALSE))
                /\ calls' = Append(calls,
                      [inv |-> inv, cn |-> corporate_psc_company_number_to_recurse,
                       depth |-> f.depth + 1, vref |-> passed.vref,
                       ventry |-> passed.heap[passed.vref], initial |-> FALSE,
                       parent |-> f.inv, pidx |-> f.i])
           ELSE /\ out' = Append(out, ControllerEv(f, psc))
                /\ stack' = SetTop([f EXCEPT !.i = @ + 1])
                /\ UNCHANGED <<heap, calls>>
    /\ UNCHANGED <<world, input, phase, requests, faults>>

\* the list is exhausted: the separator line, and the call returns
EndOfPscs ==
    /\ At("loop")
    /\ Top.i > Len(Top.pscs.items)
    /\ out' = Append(out, Ev("Separator", Top, 0))
    /\ Return
    /\ UNCHANGED <<world, input, heap, calls, requests, faults>>

(***************************************************************************)
(* Specification                                                           *)
(***************************************************************************)
Init ==
    /\ world \in Worlds
    /\ input \in InputsOf(world)
    /\ phase = "idle"
    /\ stack = << >>
    /\ heap = << >>
    /\ calls = << >>
    /\ out = << >>
    /\ requests = << >>
    /\ faults = 0

Next ==
    \/ Submit
    \/ Enter
    \/ FetchProfile
    \/ FetchTopPscs
    \/ SummaryPsc
    \/ SummaryCorporatePsc
    \/ SummaryFilings
    \/ UseTopPscs
    \/ FetchPscs
    \/ ProcessPsc
    \/ EndOfPscs

Spec == Init /\ [][Next]_vars

(***************************************************************************)
(* Vocabulary of the properties                                            *)
(***************************************************************************)
Normalized(cn) == upper(strip(cn))

Done == phase = "done"

\* the run met no injected failure
NoFaults == faults = 0

Events(ev) == { k \in 1..Len(out) : out[k].ev = ev }

\* the node-visit events: the summary box of the seed, the heading of
\* every other company
NodeVisits == Events("Summary") \cup Events("NodeVisit")

RequestsOf(inv) == { k \in 1..Len(requests) : requests[k].inv = inv }

TreeRequestsOf(inv) == { k \in RequestsOf(inv) : requests[k].by = "tree" }

RECURSIVE Ancestors(_)
\* the invocations on the path from the seed to the caller of invocation k
Ancestors(k) ==
    IF calls[k].parent = 0 THEN {}
    ELSE {calls[k].parent} \cup Ancestors(calls[k].parent)

\* invocation k has gone past its entry guards (or returned at them)
Entered(k) == ~(phase = "running" /\ Top.inv = k /\ Top.pc = "entry")

\* invocation k resolved its identifier: it asked for the profile
Resolved(k) == \E r \in TreeRequestsOf(k) : requests[r].resource = "profile"

\* invocation k was made on an identifier of its branch's visited set
OnVisited(k) == Normalized(calls[k].cn) \in calls[k].ventry

CycleWorld == world.name = "cycle"

\* the cycle leaf of the two-company cycle: one event, at depth 2, for the seed
CycleLeafAtDepthTwo ==
    /\ Cardinality(Events("CycleDetected")) = 1
    /\ \A e \in Events("CycleDetected") :
          /\ out[e].depth = 2
          /\ out[e].cn = <<"A","B","0","0","0","0","0","1">>
          /\ calls[out[e].inv].parent # 0
          /\ Normalized(calls[calls[out[e].inv].parent].cn) = <<"A","B","0","0","0","0","0","2">>
    /\ Cardinality(NodeVisits) = 2
    /\ Events("MaxDepthReached") = {}

\* no branch resolves an identifier that one of its ancestors resolved
NoRepeatOnBranch ==
    \A k \in 1..Len(calls) :
        Resolved(k) =>
            \A a \in Ancestors(k) : Normalized(calls[a].cn) # Normalized(calls[k].cn)

\* C1 as amended: no branch resolves the same normalized identifier twice
\* within its ancestor chain; an invocation at a depth of at most MAX_DEPTH
\* on an identifier of its branch's visited set emits the cycle event, and
\* every invocation on such an identifier returns without a request; on the
\* registry where A and B control each other the run from A, with every
\* request answered, ends with one cycle leaf at depth 2
C1_CycleSafety ==
    /\ NoRepeatOnBranch
    /\ \A k \in 1..Len(calls) :
          (OnVisited(k) /\ Entered(k)) =>
              /\ RequestsOf(k) = {}
              /\ calls[k].depth <= MAX_DEPTH =>
                    \E e \in Events("CycleDetected") : out[e].inv = k
    /\ (CycleWorld /\ Done /\ NoFaults) => CycleLeafAtDepthTwo

\* the run on the two-company cycle has ended with its cycle leaf
C1_Witness ==
    /\ CycleWorld /\ Done /\ NoFaults
    /\ \E e \in Events("CycleDetected") : out[e].depth = 2 /\ OnVisited(out[e].inv)

\* C1 as stated: every invocation on an identifier of its branch's visited
\* set emits the cycle event, whatever its depth
C1_Original ==
    /\ NoRepeatOnBranch
    /\ \A k \in 1..Len(calls) :
          (OnVisited(k) /\ Entered(k)) =>
              /\ RequestsOf(k) = {}
              /\ \E e \in Events("CycleDetected") : out[e].inv = k
    /\ (CycleWorld /\ Done /\ NoFaults) => CycleLeafAtDepthTwo

ChainWorld == world.name = "chain"

\* C2: an invocation deeper than MAX_DEPTH emits the max-depth event and
\* issues no request; node-visit events and requests occur at depths
\* 0..MAX_DEPTH only; on the chain of MAX_DEPTH + 3 companies the run, with
\* every request answered, emits exactly one max-depth event, at depth
\* MAX_DEPTH + 1, and one node-visit event for each depth 0..MAX_DEPTH
C2_DepthBound ==
    /\ \A k \in 1..Len(calls) :
          (calls[k].depth > MAX_DEPTH /\ Entered(k)) =>
              /\ RequestsOf(k) = {}
              /\ \E e \in Events("MaxDepthReached") : out[e].inv = k
    /\ \A e \in NodeVisits : out[e].depth \in 0..MAX_DEPTH
    /\ \A r \in 1..Len(requests) : calls[requests[r].inv].depth \in 0..MAX_DEPTH
    /\ \A k \in 1..Len(stack) : stack[k].depth <= MAX_DEPTH + 1
    /\ (ChainWorld /\ Done /\ NoFaults) =>
          /\ Cardinality(Events("MaxDepthReached")) = 1
          /\ \A e \in Events("MaxDepthReached") :
                /\ out[e].depth = MAX_DEPTH + 1
                /\ \A v \in NodeVisits : v < e
          /\ \A d \in 0..MAX_DEPTH :
                Cardinality({ v \in NodeVisits : out[v].depth = d }) = 1
          /\ Cardinality(NodeVisits) = MAX_DEPTH + 1

\* the run on the chain has ended at the depth boundary
C2_Witness ==
    /\ ChainWorld /\ Done /\ NoFaults
    /\ \E e \in Events("MaxDepthReached") : out[e].depth = MAX_DEPTH + 1
    /\ \E v \in NodeVisits : out[v].depth = MAX_DEPTH

DiamondWorld == world.name = "diamond"

\* the node-visit events of company cn made by an invocation whose caller
\* was working on company under
VisitsUnder(cn, under) ==
    { v \in NodeVisits :
        /\ out[v].cn = cn
        /\ calls[out[v].inv].parent # 0
        /\ Normalized(calls[calls[out[v].inv].parent].cn) = under }

\* C3: on the diamond, with every request answered, D is visited once under
\* B and once under C, and is never reported as already visited
C3_SiblingIndependence ==
    (DiamondWorld /\ Done /\ NoFaults) =>
        /\ Cardinality(VisitsUnder(<<"D","M","0","0","0","0","0","D">>, <<"D","M","0","0","0","0","0","B">>)) = 1
        /\ Cardinality(VisitsUnder(<<"D","M","0","0","0","0","0","D">>, <<"D","M","0","0","0","0","0","C">>)) = 1
        /\ \A b \in VisitsUnder(<<"D","M","0","0","0","0","0","D">>, <<"D","M","0","0","0","0","0","B">>) :
              \A c \in VisitsUnder(<<"D","M","0","0","0","0","0","D">>, <<"D","M","0","0","0","0","0","C">>) : b < c
        /\ Events("CycleDetected") = {}

\* the run on the diamond has ended, with D visited under C after B's
\* branch had already visited it
C3_Witness ==
    /\ DiamondWorld /\ Done /\ NoFaults
    /\ VisitsUnder(<<"D","M","0","0","0","0","0","D">>, <<"D","M","0","0","0","0","0","B">>) # {}
    /\ VisitsUnder(<<"D","M","0","0","0","0","0","D">>, <<"D","M","0","0","0","0","0","C">>) # {}

\* request k was answered 401
Unauthorized(k) == requests[k].kind = "http" /\ requests[k].status = 401

\* C4: a request answered 401 is the last request of the run, and nothing
\* is rendered for a node or a controller after its error message
C4_UnauthorizedAborts ==
    /\ \A k \in 1..Len(requests) : Unauthorized(k) => k = Len(requests)
    /\ \A e \in Events("error-401") :
          \A l \in (e + 1)..Len(out) :
              out[l].ev \notin {"Summary", "NodeVisit", "Controller", "FurtherAnalysis"}

\* the events of sort ev rendered by invocation k
EventsOf(k, ev) == { e \in Events(ev) : out[e].inv = k }

\* invocation k has returned
Returned(k) == \A s \in 1..Len(stack) : stack[s].inv # k

\* the controller list the caller of invocation k is going through
CallerItems(k) == ItemsOf(Registry[Normalized(calls[calls[k].parent].cn)].pscs)

\* request r is a profile fetch that failed other than by Unauthorized
FailedProfile(r) ==
    /\ requests[r].resource = "profile"
    /\ requests[r].kind # "ok"
    /\ ~Unauthorized(r)

\* C5: after a profile fetch that failed other than by 401 the node has its
\* profile-unavailable event and nothing else, no further request and no
\* descent; its identifier is in its branch's visited set; its caller
\* renders every party that follows it; and no exception ends the run
C5_ErrorContainment ==
    /\ phase # "raised"
    /\ \A r \in 1..Len(requests) :
          FailedProfile(r) =>
              LET k == requests[r].inv
              IN  /\ Cardinality(EventsOf(k, "ProfileUnavailable")) = 1
                  /\ RequestsOf(k) = {r}
                  /\ \A c \in 1..Len(calls) : calls[c].parent # k
                  /\ EventsOf(k, "Controller") = {}
                  /\ EventsOf(k, "PscHeader") = {}
                  /\ Normalized(calls[k].cn) \in heap[calls[k].vref]
                  /\ Returned(k)
                  /\ phase = (IF calls[k].parent = 0 THEN "done" ELSE phase)
                  /\ (Done /\ calls[k].parent # 0) =>
                        \A i \in (calls[k].pidx + 1)..Len(CallerItems(k)) :
                            Cardinality({ e \in EventsOf(calls[k].parent, "Controller") :
                                            out[e].i = i }) = 1

\* a run has ended in which a profile fetch failed under a caller that had
\* parties left to go through
C5_Witness ==
    /\ Done
    /\ \E r \in 1..Len(requests) :
          /\ FailedProfile(r)
          /\ calls[requests[r].inv].parent # 0
          /\ calls[requests[r].inv].pidx < Len(CallerItems(requests[r].inv))
          /\ requests[r].kind = "transport"

\* the controllers fetch of invocation k, if it has made one
PscsFetches(k) == { r \in TreeRequestsOf(k) : requests[r].resource = "pscs" }

\* the controller list request r was answered with
ListOf(r) == Registry[requests[r].number].pscs.items

\* request r was answered with a controller list
Listed(r) ==
    /\ requests[r].kind = "ok"
    /\ "items" \in DOMAIN Registry[requests[r].number].pscs

\* C6: for every invocation that fetched controllers: a failed fetch gives
\* the controllers-unavailable event and no controller event, an empty list
\* the no-controllers event and no controller event, a non-empty list one
\* controller event per party; the events of one outcome never appear for
\* another
C6_ControllerOutcomes ==
    \A k \in 1..Len(calls) : \A r \in PscsFetches(k) :
        /\ Cardinality(PscsFetches(k)) = 1
        /\ requests[r].kind # "ok" =>
              /\ EventsOf(k, "NoControllers") = {}
              /\ EventsOf(k, "NoPscData") = {}
              /\ EventsOf(k, "Controller") = {}
              /\ Returned(k) => Cardinality(EventsOf(k, "ControllersUnavailable")) = 1
        /\ (Listed(r) /\ ListOf(r) = << >>) =>
              /\ EventsOf(k, "ControllersUnavailable") = {}
              /\ EventsOf(k, "NoPscData") = {}
              /\ EventsOf(k, "Controller") = {}
              /\ Returned(k) => Cardinality(EventsOf(k, "NoControllers")) = 1
        /\ (Listed(r) /\ ListOf(r) # << >>) =>
              /\ EventsOf(k, "ControllersUnavailable") = {}
              /\ EventsOf(k, "NoPscData") = {}
              /\ EventsOf(k, "NoControllers") = {}
              /\ \A e \in EventsOf(k, "Controller") :
                    /\ out[e].i \in 1..Len(ListOf(r))
                    /\ out[e].psc = ListOf(r)[out[e].i]
              /\ Returned(k) =>
                    \A i \in 1..Len(ListOf(r)) :
                        Cardinality({ e \in EventsOf(k, "Controller") : out[e].i = i }) = 1

\* a run has ended that met all three outcomes
C6_Witness ==
    /\ Done
    /\ Events("ControllersUnavailable") # {}
    /\ Events("NoControllers") # {}
    /\ Events("Controller") # {}
    /\ \E r \in 1..Len(requests) :
          requests[r].resource = "pscs" /\ requests[r].by = "tree" /\ requests[r].kind # "ok"

\* the key of an identification record holds a non-empty value
Present(identification, key) ==
    key \in DOMAIN identification /\ identification[key] # << >>

\* one of the two registration fields matches a keyword, ignoring case
KeywordMatch(identification) ==
    \E key \in {"country_registered", "place_registered"} :
        /\ Present(identification, key)
        /\ \E keyword \in uk_keywords : contains(keyword, lower(identification[key]))

\* the four-step policy of the Jurisdiction Classifier
JurisdictionPolicy(identification) ==
    IF ~Present(identification, "registration_number") THEN FALSE
    ELSE IF KeywordMatch(identification) THEN TRUE
    ELSE IF /\ ~Present(identification, "country_registered")
            /\ ~Present(identification, "place_registered") THEN TRUE
    ELSE FALSE

\* the identification record of a controlling party, {} when it has none
IdentificationOf(psc) == Get(psc, "identification", << >>)

\* the kind of the party is one of the two corporate kinds, whatever its
\* letter case
CorporateParty(psc) ==
    lower(replace(Get(psc, "kind", << >>), "-", " "))
        \in { <<"c","o","r","p","o","r","a","t","e"," ","e","n","t","i","t","y"," ","p","e","r","s","o","n"," ","w","i","t","h"," ","s","i","g","n","i","f","i","c","a","n","t"," ","c","o","n","t","r","o","l">>,
              <<"l","e","g","a","l"," ","p","e","r","s","o","n"," ","p","e","r","s","o","n"," ","w","i","t","h"," ","s","i","g","n","i","f","i","c","a","n","t"," ","c","o","n","t","r","o","l">> }

\* the registration number of the party is more than whitespace
HasNumber(psc) ==
    /\ Present(IdentificationOf(psc), "registration_number")
    /\ strip(IdentificationOf(psc)["registration_number"]) # << >>

\* event e has just been rendered, or the run has ended: out and calls
\* only grow, so what holds of an event in these states is what the claim
\* says of it
InFocus(e) == Done \/ e >= Len(out) - 1

Focus(ev) == { e \in Events(ev) : InFocus(e) }

\* the invocations made for the party of controller event e
CallsFor(e) ==
    { c \in 1..Len(calls) : calls[c].parent = out[e].inv /\ calls[c].pidx = out[e].i }

Recursed(e) == CallsFor(e) # {}

\* C7: for every controlling party the traversal goes through, the
\* classifier's verdict on its identification record is the four-step
\* policy, and a corporate party with a registration number is recursed
\* into exactly when the policy says recursable
C7_JurisdictionPolicy ==
    /\ Cardinality(uk_keywords) = 7
    /\ \A e \in Focus("Controller") :
          LET psc == out[e].psc
              identification == IdentificationOf(psc)
          IN  /\ isRecursable(identification) <=> JurisdictionPolicy(identification)
              /\ (CorporateParty(psc) /\ HasNumber(psc)) =>
                    (Recursed(e) <=> JurisdictionPolicy(identification))

DelawareRecord ==
    [registration_number |-> <<"P","R","0","0","0","0","0","2">>, country_registered |-> <<"D","e","l","a","w","a","r","e",","," ","U","S","A">>]

\* a corporate party registered in "Delaware, USA" has been gone through
\* and was not recursed into
C7_Witness ==
    \E e \in Events("Controller") :
        /\ IdentificationOf(out[e].psc) = DelawareRecord
        /\ CorporateParty(out[e].psc)
        /\ ~Recursed(e)

\* the arguments of every recursive invocation: the party's registration
\* number trimmed and uppercased, the caller's depth plus one, and a set
\* object of its own that held the caller's visited set
RecursiveArguments ==
    \A c \in 1..Len(calls) :
        calls[c].parent # 0 =>
            LET p == calls[c].parent
            IN  /\ \E e \in EventsOf(p, "Controller") :
                      /\ out[e].i = calls[c].pidx
                      /\ calls[c].cn =
                            upper(strip(IdentificationOf(out[e].psc)["registration_number"]))
                /\ calls[c].depth = calls[p].depth + 1
                /\ ~calls[c].initial
                /\ \A d \in 1..Len(calls) : d # c => calls[d].vref # calls[c].vref
                /\ calls[c].ventry = heap[calls[p].vref]
                /\ heap[calls[c].vref] \subseteq calls[c].ventry \cup {calls[c].cn}

\* C8 as amended: a party is recursed into exactly when its kind is
\* corporate or legal person, the classifier judges its identification
\* recursable and its registration number is not empty once trimmed; one
\* invocation is made, with the arguments of RecursiveArguments
C8_RecursionGate ==
    /\ \A e \in Focus("Controller") :
          Recursed(e) <=>
              /\ CorporateParty(out[e].psc)
              /\ JurisdictionPolicy(IdentificationOf(out[e].psc))
              /\ HasNumber(out[e].psc)
    /\ \A e \in Events("Controller") : Cardinality(CallsFor(e)) <= 1
    /\ RecursiveArguments

\* a recursable corporate party whose registration number had to be
\* trimmed and uppercased has been recursed into
C8_Witness ==
    \E e \in Events("Controller") :
        /\ Recursed(e)
        /\ IdentificationOf(out[e].psc)["registration_number"] = <<" ","p","r","0","0","0","0","0","2"," ">>
        /\ \A c \in CallsFor(e) : calls[c].cn = <<"P","R","0","0","0","0","0","2">> /\ calls[c].depth = 1

\* C8 as stated: recursion exactly when the kind is corporate and the
\* classifier judges the identification recursable
C8_Original ==
    /\ \A e \in Focus("Controller") :
          Recursed(e) <=>
              /\ CorporateParty(out[e].psc)
              /\ JurisdictionPolicy(IdentificationOf(out[e].psc))
    /\ \A e \in Events("Controller") : Cardinality(CallsFor(e)) <= 1
    /\ RecursiveArguments

\* the title-cased kind label of a party, "" when it has no kind
LabelOf(psc) == title(replace(Get(psc, "kind", << >>), "-", " "))

\* the rule for "individual" over a title-cased kind label
IndividualPolicy(label) ==
    \/ contains(<<"I","n","d","i","v","i","d","u","a","l">>, label)
    \/ /\ contains(<<"P","e","r","s","o","n"," ","W","i","t","h"," ","S","i","g","n","i","f","i","c","a","n","t"," ","C","o","n","t","r","o","l">>, label)
       /\ ~(contains(<<"C","o","r","p","o","r","a","t","e">>, label) \/ contains(<<"L","e","g","a","l">>, label))

\* the names of the parties of a list that the rule makes individuals
IndividualNames(items) ==
    LET chosen == SelectSeq(items, LAMBDA psc : IndividualPolicy(LabelOf(psc)))
    IN  [k \in 1..Len(chosen) |-> Get(chosen[k], "name", "N/A")]

\* the names the summary box lists as direct individual controllers
DirectIndividuals(s) ==
    LET direct == SelectSeq(out[s].key_individuals, LAMBDA entry : entry.of = << >>)
    IN  [k \in 1..Len(direct) |-> direct[k].name]

\* the controller list the summary of the seed was built from
SeedItems ==
    IF \E r \in PscsFetches(1) : Listed(r)
    THEN Registry[Normalized(calls[1].cn)].pscs.items
    ELSE << >>

\* C9: the summary lists as direct individuals exactly the parties the
\* rule makes individuals; of the three named kinds the first is individual
\* and the other two are not; and no party the rule makes an individual is
\* recursed into
C9_KindClassification ==
    /\ \A s \in Focus("Summary") :
          /\ DirectIndividuals(s) = IndividualNames(SeedItems)
          /\ \A k \in 1..Len(SeedItems) :
                /\ Get(SeedItems[k], "kind", << >>) = KindIndividual =>
                      \E n \in 1..Len(DirectIndividuals(s)) :
                          DirectIndividuals(s)[n] = SeedItems[k].name
                /\ Get(SeedItems[k], "kind", << >>) \in {KindCorporate, KindLegal} =>
                      \A n \in 1..Len(DirectIndividuals(s)) :
                          DirectIndividuals(s)[n] # SeedItems[k].name
    /\ \A e \in Focus("Controller") :
          IndividualPolicy(LabelOf(out[e].psc)) => ~Recursed(e)

\* a party of individual kind that carries a recursable identification
\* record has been listed as a direct individual and gone through without
\* recursion
C9_Witness ==
    \E e \in Events("Controller") : \E s \in Events("Summary") :
        /\ Get(out[e].psc, "kind", << >>) = KindIndividual
        /\ isRecursable(IdentificationOf(out[e].psc))
        /\ HasNumber(out[e].psc)
        /\ DirectIndividuals(s) = << "Probe" >>
        /\ ~Recursed(e)
        /\ Done

\* the button has been pressed
Submitted == phase # "idle"

\* the traversal was invoked on the cleaned input
Accepted == calls # << >> /\ calls[1].cn = upper(strip(input))

\* two alphabetic characters followed by six digits begin the text
TwoLettersSixDigits(text) ==
    /\ Len(text) >= 8
    /\ isalpha(SubSeq(text, 1, 2))
    /\ isdigit(SubSeq(text, 3, 8))

\* C10: an input is accepted only if, trimmed and uppercased, it has 8
\* characters or begins with 2 letters followed by 6 digits; an input of 8
\* characters is accepted; and a rejected input causes no invocation and
\* no request
C10_InputValidation ==
    Submitted =>
        LET cleaned == upper(strip(input))
        IN  /\ Accepted => (Len(cleaned) = 8 \/ TwoLettersSixDigits(cleaned))
            /\ Len(cleaned) = 8 => Accepted
            /\ Accepted \/ phase = "rejected"
            /\ phase = "rejected" => (calls = << >> /\ requests = << >>)

(***************************************************************************)
(* C11  Termination                                                        *)
(***************************************************************************)
\* a step of the traversal is possible exactly while it is running
RunningEnabled == (phase = "running") <=> ENABLED <<Enter \/ FetchProfile \/ FetchTopPscs
                      \/ SummaryPsc \/ SummaryCorporatePsc \/ SummaryFilings
                      \/ UseTopPscs \/ FetchPscs \/ ProcessPsc \/ EndOfPscs>>_vars

\* the running traversal does not stop halfway: weak fairness of its steps,
\* written with phase = "running" for their enabledness (RunningEnabled)
TraversalProgress == []<>(phase # "running") \/ []<><<Next>>_vars

\* the script runs on one thread and every statement it reaches is
\* executed: the button handler runs, and the traversal it starts goes on
\* (requests.get is called with a timeout, so every request is answered)
LiveSpec == Init /\ [][Next]_vars /\ WF_vars(Submit) /\ TraversalProgress

\* the deepest nesting of display_ownership_tree: depths 0..MAX_DEPTH+1
NestingBound == Len(stack) <= MAX_DEPTH + 2

\* every invocation made so far has returned
AllReturned == \A k \in 1..Len(calls) : Returned(k)

\* C11: whatever the registry (cycles, self-control, fan-out, failed
\* fetches) and the seed, the nesting of invocations never exceeds
\* MAX_DEPTH + 2 frames, no exception leaves the traversal, and a traversal
\* that has started reaches the state where every invocation has returned
C11_Termination ==
    /\ [](NestingBound /\ phase # "raised")
    /\ (phase = "running") ~> (Done /\ AllReturned)

\* a run that nested MAX_DEPTH + 2 invocations (the last at depth
\* MAX_DEPTH + 1) has ended with all of them returned
C11_Witness ==
    /\ Done /\ AllReturned
    /\ \E k \in 1..Len(calls) :
          calls[k].depth = MAX_DEPTH + 1 /\ Cardinality(Ancestors(k)) = MAX_DEPTH + 1

(***************************************************************************)
(* C12  Filing Relevance Filter cap                                        *)
(***************************************************************************)
\* the entries of a summary box that are relevant filings (not the line
\* saying that there is none, or that the history could not be fetched)
RelevantEntries(e) ==
    SelectSeq(out[e].filings, LAMBDA x : x.line = "filing")

\* C12: the relevant filings returned for an identifier are at most 15,
\* however many entries of the filing history pass the relevance test
C12_FilingCap ==
    \A e \in Events("Summary") : Len(RelevantEntries(e)) <= 15

(***************************************************************************)
(* C13  Non-recursable corporate controllers are leaves                    *)
(***************************************************************************)
\* the registration number of a controlling party
NumberOf(psc) == IdentificationOf(psc)["registration_number"]

\* the requests of the run whose path uses the registration number of psc
RequestsFor(psc) ==
    { r \in 1..Len(requests) : Normalized(requests[r].number) = Normalized(NumberOf(psc)) }

\* a corporate party with a registration number that the classifier judges
\* not recursable
ForeignCorporate(psc) ==
    /\ CorporateParty(psc)
    /\ HasNumber(psc)
    /\ ~isRecursable(IdentificationOf(psc))

\* C13: a corporate party the classifier judges not recursable ends its
\* branch, and no request of the run, those made for the summary included,
\* uses its registration number
C13_ForeignLeaf ==
    \A e \in Events("Controller") :
        ForeignCorporate(out[e].psc) =>
            /\ ~Recursed(e)
            /\ RequestsFor(out[e].psc) = {}

(***************************************************************************)
(* C15  The visited set is the ancestor chain                              *)
(***************************************************************************)
\* the normalized identifiers of the invocations from the seed to the
\* caller of invocation k
AncestorChain(k) == { Normalized(calls[a].cn) : a \in Ancestors(k) }

\* invocation k went past its guards and added its identifier to its set
Added(k) == Resolved(k) \/ (phase = "running" /\ \E s \in 1..Len(stack) :
                               stack[s].inv = k /\ stack[s].pc # "entry")

\* C15: the visited set an invocation receives is the set of the normalized
\* identifiers of its proper ancestors, the seed's being empty; its set
\* object is its own, and all that is ever added to it is the invocation's
\* own identifier, so that no callee adds to its caller's set
C15_VisitedIsAncestorChain ==
    \A k \in 1..Len(calls) :
        /\ calls[k].ventry = AncestorChain(k)
        /\ calls[k].parent = 0 => calls[k].ventry = {}
        /\ \A d \in 1..Len(calls) : d # k => calls[d].vref # calls[k].vref
        /\ heap[calls[k].vref] =
              IF Added(k) THEN AncestorChain(k) \cup {Normalized(calls[k].cn)}
              ELSE AncestorChain(k)

\* on the diamond, D has been entered under C with the visited set {A, C},
\* after B's branch had visited D
C15_Witness ==
    /\ DiamondWorld
    /\ \E k \in 1..Len(calls) :
          /\ calls[k].cn = <<"D","M","0","0","0","0","0","D">>
          /\ calls[k].ventry = { <<"D","M","0","0","0","0","0","A">>, <<"D","M","0","0","0","0","0","C">> }
          /\ \E b \in 1..(k - 1) : calls[b].cn = <<"D","M","0","0","0","0","0","D">> /\ Resolved(b)

(***************************************************************************)
(* C14  Depth-first event order                                            *)
(***************************************************************************)
\* invocation k and the invocations from its caller up to the seed
Path(k) == {k} \cup Ancestors(k)

\* the lines whose place in the output is settled by the step just taken
\* (out only grows, by appending, by at most five lines a step), or all of
\* them once the run has ended
Settled == { x \in 1..Len(out) : Done \/ x >= Len(out) - 4 }

\* every line of the traversal of a party comes after the controller line
\* of that party and of each party above it, before the controller line of
\* the next party of each of those lists, and before the closing line of
\* each of those lists
DepthFirstOrder ==
    \A x \in Settled : out[x].inv # 0 =>
        \A c \in Path(out[x].inv) : calls[c].parent # 0 =>
            LET p == calls[c].parent
            IN  /\ \E e \in EventsOf(p, "Controller") : e < x /\ out[e].i = calls[c].pidx
                /\ \A e \in EventsOf(p, "Controller") : e < x => out[e].i <= calls[c].pidx
                /\ \A s \in EventsOf(p, "Separator") : x < s

\* the controller lines of a company come in the order of the list the
\* registry returned: the i-th line carries the i-th entry, after the
\* lines of the i - 1 entries before it
RegistryOrder ==
    \A e \in Settled : out[e].ev = "Controller" =>
        LET k == out[e].inv
            earlier == { d \in EventsOf(k, "Controller") : d < e }
        IN  /\ { out[d].i : d \in earlier } = 1..(out[e].i - 1)
            /\ Cardinality(earlier) = out[e].i - 1
            /\ \E r \in PscsFetches(k) :
                  /\ requests[r].kind = "ok"
                  /\ ListOf(r)[out[e].i] = out[e].psc

\* what the registry answered to the r-th request of the run
Answer(r) ==
    IF requests[r].kind = "ok"
    THEN Natural(requests[r].number, requests[r].resource)
    ELSE [kind |-> requests[r].kind, status |-> requests[r].status, body |-> NoneVal]

\* The program read as a function of the seed and the answers: S carries
\* the lines rendered so far, the index r of the next answer, the number n
\* of the next invocation and the key individuals collected so far.
RECURSIVE summary_individuals(_, _, _)
\* the loop of generate_markdown_summary_and_guide from the j-th party on
summary_individuals(S, f, j) ==
    IF j > Len(ItemsOf(f.pscs)) THEN S
    ELSE LET psc == ItemsOf(f.pscs)[j]
             a == make_api_request(Answer(S.r))
         IN  IF SummaryFetches(psc)
             THEN summary_individuals(
                      [S EXCEPT !.out = @ \o ApiMsg(a, f), !.r = @ + 1,
                                !.key = @ \o SubIndividuals(a.data, CorpPscNumber(psc))],
                      f, j + 1)
             ELSE summary_individuals(
                      [S EXCEPT !.key =
                          IF IsIndividualKind(KindLabel(psc, << >>))
                          THEN Append(@, [name |-> Get(psc, "name", "N/A"), of |-> << >>])
                          ELSE @],
                      f, j + 1)

RECURSIVE display_ownership_tree(_, _, _, _, _)
RECURSIVE psc_loop(_, _, _, _, _)
\* the for loop of display_ownership_tree from the i-th party on
psc_loop(S, f, items, i, visited_companies) ==
    IF i > Len(items) THEN [S EXCEPT !.out = Append(@, Ev("Separator", f, 0))]
    ELSE LET psc == items[i]
             corporate_psc_company_number_to_recurse == RecurseTarget(psc)
             g == [f EXCEPT !.i = i]
         IN  IF corporate_psc_company_number_to_recurse # << >>
             THEN psc_loop(
                      display_ownership_tree(
                          [S EXCEPT !.out = @ \o << ControllerEv(g, psc),
                                                    Ev("FurtherAnalysis", g, i) >>],
                          corporate_psc_company_number_to_recurse, f.depth + 1,
                          visited_companies, FALSE),
                      f, items, i + 1, visited_companies)
             ELSE psc_loop([S EXCEPT !.out = Append(@, ControllerEv(g, psc))],
                           f, items, i + 1, visited_companies)

\* the PSC section of a company: the heading, then the list or the line
\* saying why there is none
psc_section(S, f, data, visited_companies) ==
    IF PscsResult(data) = "list"
    THEN psc_loop([S EXCEPT !.out = @ \o Listing(f, data)], f, data.items, 1,
                  visited_companies)
    ELSE [S EXCEPT !.out = @ \o Listing(f, data)]

\* the summary box of the seed and what follows it
seed_section(S, f, visited_companies) ==
    LET t == make_api_request(Answer(S.r))
        h == [f EXCEPT !.pscs = t.data]
        S1 == summary_individuals(
                  [S EXCEPT !.out = @ \o ApiMsg(t, f), !.r = @ + 1, !.key = << >>], h, 1)
        a == make_api_request(Answer(S1.r))
        box == SummaryEv([h EXCEPT !.key_individuals = S1.key], relevant_filings(a.data))
    IN  psc_section(
            [S1 EXCEPT !.out = @ \o ApiMsg(a, f) \o << box >> \o Header(f, f.profile),
                       !.r = @ + 1],
            f, t.data, visited_companies)

display_ownership_tree(S, company_number, current_depth, visited_companies, initial_call) ==
    LET e == NewFrame(S.n, company_number, current_depth, 0, initial_call)
        normalised_company_number == upper(strip(company_number))
        f == [e EXCEPT !.ncn = normalised_company_number]
        S0 == [S EXCEPT !.n = @ + 1]
        p == make_api_request(Answer(S.r))
        S1 == [S0 EXCEPT !.out = @ \o ApiMsg(p, f), !.r = @ + 1]
        visited == visited_companies \cup {normalised_company_number}
    IN  IF DepthExceeded(current_depth)
        THEN [S0 EXCEPT !.out = Append(@, Ev("MaxDepthReached", e, 0))]
        ELSE IF AlreadyVisited(normalised_company_number, visited_companies, initial_call)
        THEN [S0 EXCEPT !.out = Append(@, Ev("CycleDetected", f, 0))]
        ELSE IF ~Truthy(p.data)
        THEN [S1 EXCEPT !.out = Append(@, Ev("ProfileUnavailable", f, 0))]
        ELSE IF initial_call
        THEN seed_section(S1, [f EXCEPT !.profile = p.data], visited)
        ELSE LET S2 == [S1 EXCEPT !.out = @ \o Header(f, p.data)]
                 d == make_api_request(Answer(S2.r))
             IN  psc_section([S2 EXCEPT !.out = @ \o ApiMsg(d, f), !.r = @ + 1],
                             f, d.data, visited)

\* the run of the seed on the answers the registry gave
Reading ==
    display_ownership_tree([out |-> << >>, r |-> 1, n |-> 1, key |-> << >>],
                           upper(strip(input)), 0, {}, TRUE)

\* the lines of a run that has ended are those of the reading of its seed
\* and answers, which takes every answer and makes every invocation
Determined ==
    Done => /\ out = Reading.out
            /\ Reading.r = Len(requests) + 1
            /\ Reading.n = Len(calls) + 1

\* C14: controller lines come in registry-returned order, the lines of a
\* party's traversal come after its controller line and before the next
\* party's, and the lines of a run are a function of its seed and of the
\* answers of the registry
C14_DepthFirstOrder ==
    /\ RegistryOrder
    /\ DepthFirstOrder
    /\ Determined

\* on the diamond the run has ended with the lines of D, two levels down,
\* between the controller lines of B and C
C14_Witness ==
    /\ DiamondWorld /\ Done /\ NoFaults
    /\ \E b, c \in EventsOf(1, "Controller") :
          /\ out[b].i = 1 /\ out[c].i = 2
          /\ \E x \in (b + 1)..(c - 1) : out[x].depth = 2 /\ out[x].cn = <<"D","M","0","0","0","0","0","D">>

=============================================================================
